---------------------------- MODULE Spec2Model ----------------------------
(***************************************************************************)
(* A model of the data pipeline of HierSpellCorrection:                    *)
(*                                                                         *)
(*   - generate_typos_and_pos (utils/make_mispelled_data.py), the typo     *)
(*     generator, as a step machine over one token: every random draw of   *)
(*     the code is a nondeterministic choice of the step that makes it;    *)
(*   - custom_collator (data/dataset.py), the batch encoder, together with *)
(*     the word and character tokenizers it calls                          *)
(*     (tokenizer/word_char_tokenizer.py).                                 *)
(*                                                                         *)
(* A string is a sequence of one-character strings, so that slicing,       *)
(* searching and replacing are computed as Python computes them.  A        *)
(* Vietnamese letter is written in VIQR: the base letter followed by its   *)
(* marks (^ circumflex, ( breve, + horn, ' acute, ! grave, ? hook, ~ tilde,*)
(* . dot below; dd is d with stroke), one string per code point; the      *)
(* grave accent character of string.punctuation is written "backquote".    *)
(***************************************************************************)
EXTENDS Integers, Sequences, FiniteSets, TLC

(***************************************************************************)
(* Character tables of utils/make_mispelled_data.py                        *)
(***************************************************************************)
s1 ==
  <<
    "A!", "A'", "A^", "A~", "E!", "E'", "E^", "I!", "I'", "O!", "O'", "O^", "O~", "U!",
    "U'", "Y'", "a!", "a'", "a^", "a~", "e!", "e'", "e^", "i!", "i'", "o!", "o'", "o^",
    "o~", "u!", "u'", "y'", "A(", "a(", "DD", "dd", "I~", "i~", "U~", "u~", "O+", "o+",
    "U+", "u+", "A.", "a.", "A?", "a?", "A^'", "a^'", "A^!", "a^!", "A^?", "a^?", "A^~", "a^~",
    "A^.", "a^.", "A('", "a('", "A(!", "a(!", "A(?", "a(?", "A(~", "a(~", "A(.", "a(.", "E.", "e.",
    "E?", "e?", "E~", "e~", "E^'", "e^'", "E^!", "e^!", "E^?", "e^?", "E^~", "e^~", "E^.", "e^.",
    "I?", "i?", "I.", "i.", "O.", "o.", "O?", "o?", "O^'", "o^'", "O^!", "o^!", "O^?", "o^?",
    "O^~", "o^~", "O^.", "o^.", "O+'", "o+'", "O+!", "o+!", "O+?", "o+?", "O+~", "o+~", "O+.", "o+.",
    "U.", "u.", "U?", "u?", "U+'", "u+'", "U+!", "u+!", "U+?", "u+?", "U+~", "u+~", "U+.", "u+.",
    "Y!", "y!", "Y.", "y.", "Y?", "y?", "Y~", "y~"
  >>

s0 ==
  <<
    "A", "A", "A", "A", "E", "E", "E", "I", "I", "O", "O", "O", "O", "U", "U", "Y",
    "a", "a", "a", "a", "e", "e", "e", "i", "i", "o", "o", "o", "o", "u", "u", "y",
    "A", "a", "D", "d", "I", "i", "U", "u", "O", "o", "U", "u", "A", "a", "A", "a",
    "A", "a", "A", "a", "A", "a", "A", "a", "A", "a", "A", "a", "A", "a", "A", "a",
    "A", "a", "A", "a", "E", "e", "E", "e", "E", "e", "E", "e", "E", "e", "E", "e",
    "E", "e", "E", "e", "I", "i", "I", "i", "O", "o", "O", "o", "O", "o", "O", "o",
    "O", "o", "O", "o", "O", "o", "O", "o", "O", "o", "O", "o", "O", "o", "O", "o",
    "U", "u", "U", "u", "U", "u", "U", "u", "U", "u", "U", "u", "U", "u", "Y", "y",
    "Y", "y", "Y", "y", "Y", "y"
  >>

s3 ==
  <<
    "A^'", "a^'", "A^!", "a^!", "A^?", "a^?", "A^~", "a^~", "A^.", "a^.", "A('", "a('", "A(!", "a(!",
    "A(?", "a(?", "A(~", "a(~", "A(.", "a(.", "E^'", "e^'", "E^!", "e^!", "E^?", "e^?", "E^~", "e^~",
    "E^.", "e^.", "O^'", "o^'", "O^!", "o^!", "O^?", "o^?", "O^~", "o^~", "O^.", "o^.", "O+'", "o+'",
    "O+!", "o+!", "O+?", "o+?", "O+~", "o+~", "O+.", "o+.", "U+'", "u+'", "U+!", "u+!", "U+?", "u+?",
    "U+~", "u+~", "U+.", "u+."
  >>

s2 ==
  <<
    "A^", "a^", "A^", "a^", "A^", "a^", "A^", "a^", "A^", "a^", "A(", "a(", "A(", "a(",
    "A(", "a(", "A(", "a(", "A(", "a(", "E^", "e^", "E^", "e^", "E^", "e^", "E^", "e^",
    "E^", "e^", "O^", "o^", "O^", "o^", "O^", "o^", "O^", "o^", "O^", "o^", "O+", "o+",
    "O+", "o+", "O+", "o+", "O+", "o+", "O+", "o+", "U+", "u+", "U+", "u+", "U+", "u+",
    "U+", "u+", "U+", "u+"
  >>

alphabet ==
  <<
    "a", "b", "c", "d", "e", "f", "g", "h", "i", "j", "k", "l", "m",
    "n", "o", "p", "q", "r", "s", "t", "u", "v", "w", "x", "y", "z"
  >>

s5 ==
  << <<"u'", "y">>,
     <<"u!", "y">>,
     <<"u?", "y">>,
     <<"u~", "y">>,
     <<"u.", "y">>,
     <<"o'", "a">>,
     <<"o!", "a">>,
     <<"o?", "a">>,
     <<"o~", "a">>,
     <<"o.", "a">> >>

s4 ==
  << <<"u", "y'">>,
     <<"u", "y!">>,
     <<"u", "y?">>,
     <<"u", "y~">>,
     <<"u", "y.">>,
     <<"o", "a'">>,
     <<"o", "a!">>,
     <<"o", "a?">>,
     <<"o", "a~">>,
     <<"o", "a.">> >>

vowels ==
  <<
    "a", "a'", "a!", "a?", "a.", "a(", "a('", "a(!", "a(?", "a(.", "a^", "a^'", "a^!", "a^?", "a^.",
    "e", "e'", "e!", "e?", "e.", "e^", "e^'", "e^!", "e^?", "e^.", "i", "i'", "i!", "i?", "i.",
    "o", "o'", "o!", "o?", "o.", "o^", "o^'", "o^!", "o^?", "o^.", "o+", "o+'", "o+!", "o+?", "o+.",
    "u", "u'", "u!", "u?", "u.", "u+", "u+'", "u+!", "u+?", "u+.", "y", "y'", "y!", "y?", "y."
  >>

punctuation ==
  <<
    "!", "\"", "#", "$", "%", "&", "'", "(", ")", "*", "+", ",", "-", ".", "/", ":",
    ";", "<", "=", ">", "?", "@", "[", "\\", "]", "^", "_", "backquote", "{", "|", "}", "~"
  >>

upper_letters ==
  <<
    "A", "B", "C", "D", "E", "F", "G", "H", "I", "J", "K", "L", "M", "N",
    "O", "P", "Q", "R", "S", "T", "U", "V", "W", "X", "Y", "Z", "A!", "A'",
    "A^", "A~", "E!", "E'", "E^", "I!", "I'", "O!", "O'", "O^", "O~", "U!", "U'", "Y'",
    "A(", "DD", "I~", "U~", "O+", "U+", "A.", "A?", "A^'", "A^!", "A^?", "A^~", "A^.", "A('",
    "A(!", "A(?", "A(~", "A(.", "E.", "E?", "E~", "E^'", "E^!", "E^?", "E^~", "E^.", "I?", "I.",
    "O.", "O?", "O^'", "O^!", "O^?", "O^~", "O^.", "O+'", "O+!", "O+?", "O+~", "O+.", "U.", "U?",
    "U+'", "U+!", "U+?", "U+~", "U+.", "Y!", "Y.", "Y?", "Y~"
  >>

lower_letters ==
  <<
    "a", "b", "c", "d", "e", "f", "g", "h", "i", "j", "k", "l", "m", "n",
    "o", "p", "q", "r", "s", "t", "u", "v", "w", "x", "y", "z", "a!", "a'",
    "a^", "a~", "e!", "e'", "e^", "i!", "i'", "o!", "o'", "o^", "o~", "u!", "u'", "y'",
    "a(", "dd", "i~", "u~", "o+", "u+", "a.", "a?", "a^'", "a^!", "a^?", "a^~", "a^.", "a('",
    "a(!", "a(?", "a(~", "a(.", "e.", "e?", "e~", "e^'", "e^!", "e^?", "e^~", "e^.", "i?", "i.",
    "o.", "o?", "o^'", "o^!", "o^?", "o^~", "o^.", "o+'", "o+!", "o+?", "o+~", "o+.", "u.", "u?",
    "u+'", "u+!", "u+?", "u+~", "u+.", "y!", "y.", "y?", "y~"
  >>

(***************************************************************************)
(* Python string primitives                                                *)
(***************************************************************************)
Min(a, b) == IF a < b THEN a ELSE b

Max(a, b) == IF a > b THEN a ELSE b

\* c in s, for a one-character c
InStr(c, s) == \E i \in 1..Len(s) : s[i] = c

\* s.index(c): the first (1-based here) position of c in s
IndexOf(c, s) == CHOOSE i \in 1..Len(s) : s[i] = c /\ \A j \in 1..(i - 1) : s[j] # c

\* s[a:b] with 0-based a, b already clipped to 0..len(s)
Slice(s, a, b) == SubSeq(s, a + 1, b)

\* whether sub occurs in s at 0-based position p
OccursAt(sub, s, p) ==
  /\ p >= 0
  /\ p + Len(sub) <= Len(s)
  /\ \A k \in 1..Len(sub) : s[p + k] = sub[k]

\* sub in s (substring test)
Contains(s, sub) == \E p \in 0..Len(s) : OccursAt(sub, s, p)

\* s.find(sub): the lowest 0-based position of sub in s, -1 when absent
Find(s, sub) ==
  IF Contains(s, sub)
  THEN CHOOSE p \in 0..Len(s) :
         OccursAt(sub, s, p) /\ \A r \in 0..(p - 1) : ~OccursAt(sub, s, r)
  ELSE -1

\* s.startswith(prefix)
StartsWith(s, prefix) == OccursAt(prefix, s, 0)

\* s.replace(old, new): every non-overlapping occurrence, left to right (old non-empty)
RECURSIVE Replace(_, _, _)
Replace(s, old, new) ==
  IF Len(s) < Len(old) THEN s
  ELSE IF OccursAt(old, s, 0)
       THEN new \o Replace(SubSeq(s, Len(old) + 1, Len(s)), old, new)
       ELSE <<s[1]>> \o Replace(Tail(s), old, new)

uppercase == {upper_letters[i] : i \in 1..Len(upper_letters)}

\* str.lower() of one character
LowerChar(c) ==
  IF c \in uppercase THEN lower_letters[IndexOf(c, upper_letters)] ELSE c

\* str.lower()
Lower(s) == [i \in 1..Len(s) |-> LowerChar(s[i])]

Digits == {"0", "1", "2", "3", "4", "5", "6", "7", "8", "9"}

IsDigits(s) == Len(s) > 0 /\ \A i \in 1..Len(s) : s[i] \in Digits

StripSign(s) == IF Len(s) > 0 /\ s[1] \in {"+", "-"} THEN Tail(s) ELSE s

\* digits [ "." [digits] ] | "." digits
IsPointFloat(s) ==
  \/ IsDigits(s)
  \/ \E k \in 1..Len(s) :
       /\ s[k] = "."
       /\ \A i \in 1..Len(s) : i # k => s[i] \in Digits
       /\ Len(s) > 1

\* a decimal literal with an optional exponent
IsDecimal(s) ==
  \/ IsPointFloat(s)
  \/ \E k \in 1..Len(s) :
       /\ s[k] \in {"e", "E"}
       /\ IsPointFloat(SubSeq(s, 1, k - 1))
       /\ IsDigits(StripSign(SubSeq(s, k + 1, Len(s))))

\* float(text) returns (does not raise ValueError)
FloatParses(text) ==
  LET u == StripSign(text) IN
    \/ IsDecimal(u)
    \/ Lower(u) \in { <<"i", "n", "f">>, <<"n", "a", "n">>,
                      <<"i", "n", "f", "i", "n", "i", "t", "y">> }

\* locale.atoi(text) under en_US.UTF-8 returns: the thousands separator ","
\* is deleted, then int() parses
AtoiParses(text) == IsDigits(StripSign(SelectSeq(text, LAMBDA c : c # ",")))

(***************************************************************************)
(* utils/make_mispelled_data.py: the helpers of the typo generator         *)
(***************************************************************************)
remove_accents(input_str) ==
  [i \in 1..Len(input_str) |->
     IF InStr(input_str[i], s1) THEN s0[IndexOf(input_str[i], s1)] ELSE input_str[i]]

is_number(text) == FloatParses(text) \/ AtoiParses(text)

\* re.search of \dh\d{2}, \dh and \dm\d anywhere in the text
is_time_or_measurement(text) ==
  LET time_search ==
        \E i \in 1..Len(text) :
          /\ i + 3 <= Len(text)
          /\ text[i] \in Digits /\ text[i + 1] = "h"
          /\ text[i + 2] \in Digits /\ text[i + 3] \in Digits
      time_search2 ==
        \E i \in 1..Len(text) :
          i + 1 <= Len(text) /\ text[i] \in Digits /\ text[i + 1] = "h"
      measurement_search ==
        \E i \in 1..Len(text) :
          /\ i + 2 <= Len(text)
          /\ text[i] \in Digits /\ text[i + 1] = "m" /\ text[i + 2] \in Digits
  IN time_search \/ time_search2 \/ measurement_search

\* Python's False as returned by special_tone_contain
PyFalse == -1

\* the 0-based index i of the first digraph of s5 found at a position > 0,
\* False when there is none
special_tone_contain(text) ==
  LET hits == {i \in 0..(Len(s5) - 1) : Find(text, s5[i + 1]) > 0} IN
    IF hits = {} THEN PyFalse
    ELSE CHOOSE i \in hits : \A j \in hits : i <= j

\* truth value of what special_tone_contain returns: False and 0 are falsy
Truthy(r) == r # PyFalse /\ r # 0

\* manual_replace that inserts char without dropping the replaced characters
manual_replace_keeping(s, char, index, length) ==
  Slice(s, 0, Min(index, Len(s))) \o char \o Slice(s, Min(index, Len(s)), Len(s))

manual_replace(s, char, index, length) ==
  Slice(s, 0, Min(index, Len(s))) \o char \o Slice(s, Min(index + length, Len(s)), Len(s))

\* the skip test without the time and measurement patterns
skip_typo_numbers_only(token) ==
  is_number(token) \/ Contains(punctuation, token)

\* the skip test of generate_typos_and_pos: token in string.punctuation is a
\* substring test
skip_typo(token) ==
  is_number(token) \/ is_time_or_measurement(token) \/ Contains(punctuation, token)

(***************************************************************************)
(* The consonant confusions of generate_typos_and_pos, in the order of the *)
(* code (lines 199-308): the token must start with prefix, be longer than  *)
(* minlen and have token[1] in vowels; manual_replace(token, char, 0,      *)
(* length) is then applied.                                                *)
(***************************************************************************)
NgongRule(prefix, minlen, char, length, name) ==
  [prefix |-> prefix, minlen |-> minlen, char |-> char, length |-> length,
   typo_type |-> name]

NgongRules ==
  << NgongRule(<<"l">>, 2, <<"n">>, 1, "Ngong l-n"),
     NgongRule(<<"L">>, 2, <<"N">>, 1, "Ngong l-n"),
     NgongRule(<<"n">>, 2, <<"l">>, 1, "Ngong n-l"),
     NgongRule(<<"N">>, 2, <<"L">>, 1, "Ngong n-l"),
     NgongRule(<<"s">>, 2, <<"x">>, 1, "Ngong s-x"),
     NgongRule(<<"S">>, 2, <<"X">>, 1, "Ngong s-x"),
     NgongRule(<<"x">>, 2, <<"s">>, 1, "Ngong x-s"),
     NgongRule(<<"X">>, 2, <<"S">>, 1, "Ngong x-s"),
     NgongRule(<<"t", "r">>, 3, <<"c", "h">>, 2, "Ngong tr-ch"),
     NgongRule(<<"T", "r">>, 3, <<"C", "h">>, 2, "Ngong tr-ch"),
     NgongRule(<<"c", "h">>, 3, <<"t", "r">>, 2, "Ngong ch-tr"),
     NgongRule(<<"C", "h">>, 3, <<"T", "r">>, 2, "Ngong ch-tr"),
     NgongRule(<<"g", "i">>, 3, <<"d">>, 2, "Ngong gi-d"),
     NgongRule(<<"G", "i">>, 3, <<"D">>, 2, "Ngong gi-d"),
     NgongRule(<<"d">>, 2, <<"g", "i">>, 2, "Ngong d-gi"),
     NgongRule(<<"D">>, 3, <<"G", "i">>, 2, "Ngong d-gi"),
     NgongRule(<<"r">>, 2, <<"d">>, 1, "Ngong r-d"),
     NgongRule(<<"R">>, 2, <<"D">>, 1, "Ngong r-d"),
     NgongRule(<<"d">>, 2, <<"r">>, 1, "Ngong d-r"),
     NgongRule(<<"D">>, 2, <<"R">>, 1, "Ngong d-r") >>

\* the condition of one confusion rule, without its random gate
NgongApplies(r, token) ==
  /\ StartsWith(token, r.prefix)
  /\ Len(token) > r.minlen
  /\ InStr(token[2], vowels)

(***************************************************************************)
(* The outcomes of the four compounding transforms (lines 309-362), as the *)
(* sets of tokens their random draws can produce.                          *)
(***************************************************************************)
\* largest value drawn from np.random.poisson
MaxPoisson == 1

\* how many letters of alphabet the random choice of added characters draws from
NumAddLetters == 1

PoissonDraws == 0..MaxPoisson

AddLetters == {alphabet[i] : i \in 1..Min(NumAddLetters, Len(alphabet))}

\* what one character can become in the partial branch: demoted from s3 to s2
\* when its draw is below 0.7, then stripped from s1 to s0 when its draw is
\* below 0.5
DemoteChoices(cc) ==
  LET first == {cc} \cup (IF InStr(cc, s3) THEN {s2[IndexOf(cc, s3)]} ELSE {})
  IN UNION { {x} \cup (IF InStr(x, s1) THEN {s0[IndexOf(x, s1)]} ELSE {}) : x \in first }

RECURSIVE PartialAccents(_)
PartialAccents(t) ==
  IF t = <<>> THEN { <<>> }
  ELSE { <<c>> \o rest : c \in DemoteChoices(Head(t)), rest \in PartialAccents(Tail(t)) }

\* new_token of the accent branch: all accents removed, or the partial branch
AccentChoices(token) == {remove_accents(token)} \cup PartialAccents(token)

\* the bijections of a set of positions onto itself
Bijections(S) == {f \in [S -> S] : \A a, b \in S : f[a] = f[b] => a = b}

\* new_token of the swap branch: n_swap distinct positions are drawn and the
\* characters at them are permuted among themselves
SwapChoices(token) ==
  UNION { LET n_swap == Min(Len(token), k + 1) IN
            { [i \in 1..Len(token) |-> IF i \in index THEN token[swap_dict[i]] ELSE token[i]] :
                <<index, swap_dict>> \in
                  UNION { {<<S, f>> : f \in Bijections(S)} :
                            S \in {T \in SUBSET (1..Len(token)) : Cardinality(T) = n_swap} } }
        : k \in PoissonDraws }

\* the token after n removals, each at a position drawn in the current token
RECURSIVE RemoveLoop(_, _)
RemoveLoop(token, n) ==
  IF n = 0 THEN {token}
  ELSE UNION { RemoveLoop(Slice(token, 0, p) \o Slice(token, p + 1, Len(token)), n - 1) :
                 p \in 0..(Len(token) - 1) }

RemoveChoices(token) ==
  UNION { RemoveLoop(token, Min(Len(token), k + 1)) : k \in PoissonDraws }

\* the token after n insertions of a drawn letter, each at a position drawn in
\* the current token
RECURSIVE AddLoop(_, _)
AddLoop(token, n) ==
  IF n = 0 THEN {token}
  ELSE UNION { AddLoop(Slice(token, 0, p) \o <<cc>> \o Slice(token, p, Len(token)), n - 1) :
                 p \in 0..(Len(token) - 1), cc \in AddLetters }

AddChoices(token) ==
  UNION { AddLoop(token, Min(Len(token), k + 1)) : k \in PoissonDraws }

(***************************************************************************)
(* The tokens the generator is run on                                      *)
(***************************************************************************)
Onsets ==
  { <<>>, <<"l">>, <<"L">>, <<"n">>, <<"N">>, <<"s">>, <<"S">>, <<"x">>, <<"X">>,
    <<"t", "r">>, <<"T", "r">>, <<"c", "h">>, <<"C", "h">>, <<"g", "i">>, <<"G", "i">>,
    <<"d">>, <<"D">>, <<"r">>, <<"R">>, <<"t", "h">> }

Rimes ==
  { <<"a">>, <<"a", "n">>, <<"a!", "m">>, <<"h", "a">>, <<"u?", "y">>, <<"u'", "y">>,
    <<"a^'", "y">> }

Literals ==
  { <<"1">>, <<"1", "2">>, <<"1", ".", "5">>, <<"1", ",", "5">>, <<"3", "h">>,
    <<"3", "h", "2", "0">>, <<"1", "m", "5">>, <<"a", "3", "h">>, <<"i", "n", "f">>,
    <<".">>, <<",", "-", ".">>, <<".", ".", ".">>, <<"o'", "a">>, <<"h", "o'", "a">> }

Tokens == { o \o r : o \in Onsets, r \in Rimes } \cup Literals

(***************************************************************************)
(* The tokenizers of tokenizer/word_char_tokenizer.py.  create_tokenizer   *)
(* builds both the same way: a WordLevel model over a trained vocabulary   *)
(* with [UNK] for what it does not hold, WhitespaceSplit as pre-tokenizer, *)
(* the template [CLS] $A [SEP], padding on the right with id 0.  A token   *)
(* (a word, a character, a reserved token) is a string, and its id is its  *)
(* place in the vocabulary counted from 0.                                 *)
(***************************************************************************)
pad_token == <<"[", "P", "A", "D", "]">>

unk_token == <<"[", "U", "N", "K", "]">>

cls_token == <<"[", "C", "L", "S", "]">>

sep_token == <<"[", "S", "E", "P", "]">>

all_special_tokens == {pad_token, unk_token, cls_token, sep_token}

\* a trained word vocabulary: the reserved tokens in the order the trainer
\* is given them, then words as PreWordTokenizer normalises them
word_vocab ==
  << pad_token, unk_token, cls_token, sep_token,
     <<"l", "a!", "m">>, <<"s", "a">>, <<"x", "a">>, <<"a">>, <<".">> >>

\* a trained character vocabulary
char_vocab ==
  << pad_token, unk_token, cls_token, sep_token,
     <<"a">>, <<"a!">>, <<"l">>, <<"m">>, <<"n">>, <<"s">>, <<"x">>, <<".">>,
     <<"[">>, <<"]">>, <<"u">>, <<"k">> >>

InVocab(vocab, tok) == \E i \in 1..Len(vocab) : vocab[i] = tok

\* token_to_id of a WordLevel model with unk_token "[UNK]"
TokenToId(vocab, tok) ==
  IF InVocab(vocab, tok)
  THEN (CHOOSE i \in 1..Len(vocab) : vocab[i] = tok) - 1
  ELSE (CHOOSE i \in 1..Len(vocab) : vocab[i] = unk_token) - 1

\* convert_ids_to_tokens, for one id
IdToToken(vocab, id) == vocab[id + 1]

\* the sequences seqs[a], ..., seqs[b] concatenated
RECURSIVE Concat(_, _, _)
Concat(seqs, a, b) ==
  IF a > b THEN <<>>
  ELSE IF a = b THEN seqs[a]
  ELSE LET m == (a + b) \div 2 IN Concat(seqs, a, m) \o Concat(seqs, m + 1, b)

\* sep.join(parts)
RECURSIVE Join(_, _)
Join(sep, parts) ==
  IF parts = <<>> THEN <<>>
  ELSE IF Len(parts) = 1 THEN parts[1]
  ELSE parts[1] \o sep \o Join(sep, Tail(parts))

\* the WhitespaceSplit pre-tokenizer: the maximal runs without white space
RECURSIVE WhitespaceSplit(_)
WhitespaceSplit(text) ==
  IF text = <<>> THEN <<>>
  ELSE IF Head(text) = " " THEN WhitespaceSplit(Tail(text))
  ELSE LET stop == IF InStr(" ", text) THEN IndexOf(" ", text) ELSE Len(text) + 1
       IN <<SubSeq(text, 1, stop - 1)>> \o WhitespaceSplit(SubSeq(text, stop, Len(text)))

\* WhitespaceSplit(' '.join(tks)): the parts are joined by white space, so the
\* runs of the joined text are the runs of each part, in order
SplitJoined(tks) ==
  Concat([k \in 1..Len(tks) |-> WhitespaceSplit(tks[k])], 1, Len(tks))

Repeat(x, n) == [k \in 1..n |-> x]

\* one text through the model, truncation and the template: at most
\* max_length ids, [CLS] and [SEP] included
EncodeOne(vocab, words, max_length) ==
  LET ids == [k \in 1..Len(words) |-> TokenToId(vocab, words[k])]
      kept == SubSeq(ids, 1, Min(Len(ids), Max(max_length - 2, 0)))
  IN <<TokenToId(vocab, cls_token)>> \o kept \o <<TokenToId(vocab, sep_token)>>

\* the rows padded to the longest of them, with their masks
PadRows(rows, width, pad_id) ==
  [input_ids |->
     [i \in 1..Len(rows) |-> rows[i] \o Repeat(pad_id, width - Len(rows[i]))],
   attention_mask |->
     [i \in 1..Len(rows) |-> Repeat(1, Len(rows[i])) \o Repeat(0, width - Len(rows[i]))],
   token_type_ids |->
     [i \in 1..Len(rows) |-> Repeat(0, width)]]

\* the length of the longest row
Longest(rows) ==
  CHOOSE w \in {Len(rows[i]) : i \in 1..Len(rows)} :
    \A i \in 1..Len(rows) : Len(rows[i]) <= w

\* padding=True: every row is padded to the longest
Padded(rows, pad_id) == PadRows(rows, Longest(rows), pad_id)

\* a list built element by element: the sequence f itself
List(f) == f \o <<>>

\* tokenizer(texts, padding=True, truncation=True, max_length=max_length),
\* texts given as their white-space runs
Encode(vocab, texts, max_length) ==
  Padded(List([i \in 1..Len(texts) |-> EncodeOne(vocab, texts[i], max_length)]),
         TokenToId(vocab, pad_token))

\* sequence.strip()
RECURSIVE Strip(_)
Strip(s) ==
  IF s = <<>> THEN s
  ELSE IF Head(s) = " " THEN Strip(Tail(s))
  ELSE IF s[Len(s)] = " " THEN Strip(SubSeq(s, 1, Len(s) - 1))
  ELSE s

\* Sequence([NFKC(), Lowercase()]).normalize_str: the letters of the model are
\* precomposed and NFKC leaves them as they are
normalize_str(sequence) == Lower(sequence)

\* PreCharTokenizer.pre_tokenize; "ldquo" and "rdquo" are the curly quotes
PreCharTokenizer_pre_tokenize(sequence) ==
  LET normalized == normalize_str(Strip(sequence)) IN
    IF normalized \in all_special_tokens
    THEN <<normalized>>
    ELSE LET kept == SelectSeq(normalized, LAMBDA c : c \notin {" ", "rdquo", "ldquo"})
         IN [k \in 1..Len(kept) |-> <<kept[k]>>]

(***************************************************************************)
(* custom_collator of data/dataset.py                                     *)
(***************************************************************************)
num_max_word == 192

num_max_char == 16

word_tokenizer(texts) == Encode(word_vocab, texts, num_max_word)

char_tokenizer(texts) == Encode(char_vocab, texts, num_max_char)

\* the padding of the labels without the cut at num_max_word
pad_labels_uncut(labels) ==
  LET lengths == {Len(labels[i]) + 2 : i \in 1..Len(labels)}
      max_length == CHOOSE m \in lengths : \A n \in lengths : n <= m
  IN [i \in 1..Len(labels) |->
        <<0>> \o labels[i] \o Repeat(0, max_length - Len(labels[i]) - 1)]

\* lines 60-69: a leading 0, the labels, zeros up to the longest example plus
\* two, then the cut at num_max_word
pad_labels(labels) ==
  LET lengths == {Len(labels[i]) + 2 : i \in 1..Len(labels)}
      max_length == CHOOSE m \in lengths : \A n \in lengths : n <= m
  IN [i \in 1..Len(labels) |->
        LET item == <<0>> \o labels[i] \o Repeat(0, max_length - Len(labels[i]) - 1)
        IN SubSeq(item, 1, Min(Len(item), num_max_word))]

\* lines 85-93: the words of the encoded rows, the reserved ones as [UNK]
sent_words(input_ids) ==
  Concat([i \in 1..Len(input_ids) |->
            [p \in 1..Len(input_ids[i]) |->
               LET word == IdToToken(word_vocab, input_ids[i][p]) IN
                 IF word \in all_special_tokens THEN unk_token ELSE word]],
         1, Len(input_ids))

\* tensor.size() of a matrix
Size(m) == <<Len(m), IF Len(m) = 0 THEN 0 ELSE Len(m[1])>>

\* no assertion at all
shapes_valid_unchecked(char_ids, synth_ids, correction_lbs, onehot_labels, batch_size) ==
  TRUE

\* the two assertions of lines 99-101
shapes_valid(char_ids, synth_ids, correction_lbs, onehot_labels, batch_size) ==
  /\ Size(char_ids)[1] = batch_size * Size(synth_ids)[2]
  /\ Size(synth_ids) = Size(correction_lbs)
  /\ Size(correction_lbs) = Size(onehot_labels)

\* the label tensor left with its category codes
binarize_keeping(labels) ==
  [i \in 1..Len(labels) |-> [p \in 1..Len(labels[i]) |-> labels[i][p]]]

\* line 103: batch_onehot_labels[batch_onehot_labels != 0] = 1
binarize(labels) ==
  [i \in 1..Len(labels) |->
     [p \in 1..Len(labels[i]) |-> IF labels[i][p] # 0 THEN 1 ELSE labels[i][p]]]

(***************************************************************************)
(* The batches custom_collator is run on.  A word of an example is one of  *)
(* a few cases of what the synthesizer hands over: the original word, the  *)
(* synthesized word and its error label.                                   *)
(***************************************************************************)
WordCase(origin, synth, label) == [origin |-> origin, synth |-> synth, label |-> label]

\* a word left as it is
CleanWord == WordCase(<<"l", "a!", "m">>, <<"l", "a!", "m">>, 0)

WordCases ==
  { CleanWord,
    \* a typo that is no word of the vocabulary
    WordCase(<<"l", "a!", "m">>, <<"n", "a!", "m">>, 2),
    \* a typo that is a word of the vocabulary
    WordCase(<<"s", "a">>, <<"x", "a">>, 3),
    \* a one-letter word whose only character was removed
    WordCase(<<"a">>, <<>>, 4) }

\* the longest short sentence, in words
MaxShort == 2

\* how many words beyond num_max_word - 2 the longest sentence has
MaxOver == 1

batch_size == 2

Example(cases) ==
  [success |-> TRUE,
   origin_tokens |-> [k \in 1..Len(cases) |-> cases[k].origin],
   synth_tokens |-> [k \in 1..Len(cases) |-> cases[k].synth],
   onehot_labels |-> [k \in 1..Len(cases) |-> cases[k].label]]

ShortSentences == UNION { [1..n -> WordCases] : n \in 1..MaxShort }

\* clean words and then one word of any case, around the truncation length
LongSentences ==
  { [k \in 1..n |-> IF k < n THEN CleanWord ELSE c] :
      n \in (num_max_word - 2)..(num_max_word - 2 + MaxOver), c \in WordCases }

Examples == { Example(cs) : cs \in ShortSentences \cup LongSentences }

Batches == [1..batch_size -> Examples]

(***************************************************************************)
(* State                                                                   *)
(***************************************************************************)
VARIABLES
  origin_token,  \* the token generate_typos_and_pos was called with
  token,         \* its local variable token
  pos,           \* its local variable pos, "C" or "TYPO"
  typo_type,     \* its local variable typo_type
  pc,            \* the statement it is at
  rule,          \* the confusion rule it is at (an index of NgongRules), else 0
  last,          \* the gate evaluated last: its step, rule and random outcome
  batch,                \* the argument of custom_collator
  cpc,                  \* the statement custom_collator is at
  batch_onehot_labels,  \* its local variables, as the code names them
  batch_synth_enc,
  batch_origin_enc,
  batch_sent_words,
  batch_char_tok,
  batch_char_enc,
  out,                  \* the dictionary it returned
  corpus,               \* the corpus files and statistics of a MisspelledDataset
  gpc,                  \* where the call of __getitem__ is
  depth,                \* how many calls of __getitem__ are on the stack
  line                  \* its local variable line

gen_vars == <<origin_token, token, pos, typo_type, pc, rule, last>>

collate_vars ==
  <<batch, cpc, batch_onehot_labels, batch_synth_enc, batch_origin_enc,
    batch_sent_words, batch_char_tok, batch_char_enc, out>>

item_vars == <<corpus, gpc, depth, line>>

vars == <<gen_vars, collate_vars, item_vars>>

\* no __getitem__ is running
ItemIdle ==
  /\ corpus = <<>>
  /\ gpc = "idle"
  /\ depth = 0
  /\ line = <<>>

\* custom_collator is not running
CollateIdle ==
  /\ batch = <<>>
  /\ cpc = "idle"
  /\ batch_onehot_labels = <<>>
  /\ batch_synth_enc = <<>>
  /\ batch_origin_enc = <<>>
  /\ batch_sent_words = <<>>
  /\ batch_char_tok = <<>>
  /\ batch_char_enc = <<>>
  /\ out = <<>>

NoGate == [step |-> "none", rule |-> 0, gate |-> FALSE]

Gate(step, r, g) == [step |-> step, rule |-> r, gate |-> g]

Init ==
  /\ origin_token \in Tokens
  /\ token = origin_token
  /\ pos = "C"
  /\ typo_type = "None"
  /\ pc = "skip_check"
  /\ rule = 0
  /\ last = NoGate
  /\ CollateIdle
  /\ ItemIdle

\* the assignments of a rule without its return: the call goes on to the
\* compounding transforms
Return_falling_through(t, p, ty) ==
  /\ token' = t
  /\ pos' = p
  /\ typo_type' = ty
  /\ pc' = "accent"

\* return token, pos, typo_type
Return(t, p, ty) ==
  /\ token' = t
  /\ pos' = p
  /\ typo_type' = ty
  /\ pc' = "done"

\* line 185: numbers, times, measurements and punctuation are returned as they are
SkipCheck ==
  /\ pc = "skip_check"
  /\ IF skip_typo(token)
     THEN Return(token, pos, typo_type)
     ELSE pc' = "no_typo" /\ UNCHANGED <<token, pos, typo_type>>
  /\ last' = Gate("skip_check", 0, skip_typo(token))
  /\ UNCHANGED <<origin_token, rule>>
  /\ UNCHANGED <<collate_vars, item_vars>>

\* line 187: random.random() < no_typo_prob
NoTypoGate ==
  /\ pc = "no_typo"
  /\ \E g \in BOOLEAN :
       /\ IF g
          THEN Return(token, pos, typo_type)
          ELSE pc' = "special_tone" /\ UNCHANGED <<token, pos, typo_type>>
       /\ last' = Gate("no_typo", 0, g)
  /\ UNCHANGED <<origin_token, rule>>
  /\ UNCHANGED <<collate_vars, item_vars>>

\* lines 191-196: the tone mark of a digraph of s5 moves to its place in s4
SpecialTone ==
  /\ pc = "special_tone"
  /\ \E g \in BOOLEAN :
       /\ IF Truthy(special_tone_contain(token)) /\ g
          THEN LET special_tone_index == special_tone_contain(token) IN
                 /\ Return(Replace(token, s5[special_tone_index + 1],
                                   s4[special_tone_index + 1]),
                           "TYPO", "Special tone swap")
                 /\ rule' = rule
          ELSE /\ pc' = "ngong"
               /\ rule' = 1
               /\ UNCHANGED <<token, pos, typo_type>>
       /\ last' = Gate("special_tone", 0, g)
  /\ UNCHANGED origin_token
  /\ UNCHANGED <<collate_vars, item_vars>>

\* lines 199-308: one confusion rule; the first one whose condition holds and
\* whose gate fires replaces the prefix and returns
Ngong ==
  /\ pc = "ngong"
  /\ \E g \in BOOLEAN :
       /\ IF NgongApplies(NgongRules[rule], token) /\ g
          THEN /\ Return(manual_replace(token, NgongRules[rule].char, 0,
                                        NgongRules[rule].length),
                         "TYPO", NgongRules[rule].typo_type)
               /\ rule' = rule
          ELSE /\ IF rule < Len(NgongRules)
                  THEN pc' = "ngong" /\ rule' = rule + 1
                  ELSE pc' = "accent" /\ rule' = 0
               /\ UNCHANGED <<token, pos, typo_type>>
       /\ last' = Gate("ngong", rule, g)
  /\ UNCHANGED origin_token
  /\ UNCHANGED <<collate_vars, item_vars>>

\* what a compounding transform leaves: the new token is kept, and the token
\* marked, only when changed is TRUE
Compound(new_token, changed, ty, next_pc) ==
  /\ IF changed
     THEN token' = new_token /\ pos' = "TYPO" /\ typo_type' = ty
     ELSE UNCHANGED <<token, pos, typo_type>>
  /\ pc' = next_pc
  /\ UNCHANGED <<origin_token, rule>>
  /\ UNCHANGED <<collate_vars, item_vars>>

\* lines 310-328
Accent ==
  /\ pc = "accent"
  /\ \E g \in BOOLEAN :
       /\ \E new_token \in (IF g THEN AccentChoices(token) ELSE {token}) :
            Compound(new_token, new_token # token, "Remove accent", "swap")
       /\ last' = Gate("accent", 0, g)

\* lines 330-344
Swap ==
  /\ pc = "swap"
  /\ \E g \in BOOLEAN :
       /\ \E new_token \in (IF g THEN SwapChoices(token) ELSE {token}) :
            Compound(new_token, new_token # token, "Swap char", "remove")
       /\ last' = Gate("swap", 0, g)

\* lines 345-352: the token is marked whatever the removals did
Remove ==
  /\ pc = "remove"
  /\ \E g \in BOOLEAN :
       /\ \E new_token \in (IF g THEN RemoveChoices(token) ELSE {token}) :
            Compound(new_token, g, "Remove char", "add")
       /\ last' = Gate("remove", 0, g)

\* lines 353-364: the token is marked whatever the insertions did
Add ==
  /\ pc = "add"
  /\ \E g \in BOOLEAN :
       /\ \E new_token \in (IF g THEN AddChoices(token) ELSE {token}) :
            Compound(new_token, g, "Add char", "done")
       /\ last' = Gate("add", 0, g)

Next ==
  \/ SkipCheck
  \/ NoTypoGate
  \/ SpecialTone
  \/ Ngong
  \/ Accent
  \/ Swap
  \/ Remove
  \/ Add

Spec == Init /\ [][Next]_vars

(***************************************************************************)
(* custom_collator, statement by statement                                 *)
(***************************************************************************)
GenIdle ==
  /\ origin_token = <<>>
  /\ token = <<>>
  /\ pos = "C"
  /\ typo_type = "None"
  /\ pc = "idle"
  /\ rule = 0
  /\ last = NoGate

CollateInit ==
  /\ GenIdle
  /\ ItemIdle
  /\ batch \in Batches
  /\ cpc = "pad_labels"
  /\ batch_onehot_labels = <<>>
  /\ batch_synth_enc = <<>>
  /\ batch_origin_enc = <<>>
  /\ batch_sent_words = <<>>
  /\ batch_char_tok = <<>>
  /\ batch_char_enc = <<>>
  /\ out = <<>>

\* lines 58-70
PadLabels ==
  /\ cpc = "pad_labels"
  /\ batch_onehot_labels' = pad_labels([i \in 1..Len(batch) |-> batch[i].onehot_labels])
  /\ cpc' = "encode_words"
  /\ UNCHANGED <<batch, batch_synth_enc, batch_origin_enc, batch_sent_words,
                 batch_char_tok, batch_char_enc, out>>
  /\ UNCHANGED <<gen_vars, item_vars>>

\* lines 72-82
EncodeWords ==
  /\ cpc = "encode_words"
  /\ batch_synth_enc' =
       word_tokenizer([i \in 1..Len(batch) |-> SplitJoined(batch[i].synth_tokens)])
  /\ batch_origin_enc' =
       word_tokenizer([i \in 1..Len(batch) |-> SplitJoined(batch[i].origin_tokens)])
  /\ cpc' = "encode_chars"
  /\ UNCHANGED <<batch, batch_onehot_labels, batch_sent_words, batch_char_tok,
                 batch_char_enc, out>>
  /\ UNCHANGED <<gen_vars, item_vars>>

\* lines 84-97
EncodeChars ==
  /\ cpc = "encode_chars"
  /\ batch_sent_words' = sent_words(batch_synth_enc.input_ids)
  /\ batch_char_tok' =
       List([k \in 1..Len(batch_sent_words') |->
               Join(<<" ">>, PreCharTokenizer_pre_tokenize(batch_sent_words'[k]))])
  /\ batch_char_enc' =
       char_tokenizer([k \in 1..Len(batch_char_tok') |->
                         WhitespaceSplit(batch_char_tok'[k])])
  /\ cpc' = "validate"
  /\ UNCHANGED <<batch, batch_onehot_labels, batch_synth_enc, batch_origin_enc, out>>
  /\ UNCHANGED <<gen_vars, item_vars>>

\* lines 99-101: a failed assertion raises AssertionError out of the collator
Validate ==
  /\ cpc = "validate"
  /\ cpc' = IF shapes_valid(batch_char_enc.input_ids, batch_synth_enc.input_ids,
                            batch_origin_enc.input_ids, batch_onehot_labels, Len(batch))
            THEN "binarize"
            ELSE "aborted"
  /\ UNCHANGED <<batch, batch_onehot_labels, batch_synth_enc, batch_origin_enc,
                 batch_sent_words, batch_char_tok, batch_char_enc, out>>
  /\ UNCHANGED <<gen_vars, item_vars>>

\* lines 103-113: the label tensor is binarized in place and returned
BinarizeAndReturn ==
  /\ cpc = "binarize"
  /\ batch_onehot_labels' = binarize(batch_onehot_labels)
  /\ out' = [word_input_ids |-> batch_synth_enc.input_ids,
             word_attention_mask |-> batch_synth_enc.attention_mask,
             word_token_type_ids |-> batch_synth_enc.token_type_ids,
             char_input_ids |-> batch_char_enc.input_ids,
             char_attention_mask |-> batch_char_enc.attention_mask,
             char_token_type_ids |-> batch_char_enc.token_type_ids,
             correction_labels |-> batch_origin_enc.input_ids,
             detection_labels |-> binarize(batch_onehot_labels)]
  /\ cpc' = "returned"
  /\ UNCHANGED <<batch, batch_synth_enc, batch_origin_enc, batch_sent_words,
                 batch_char_tok, batch_char_enc>>
  /\ UNCHANGED <<gen_vars, item_vars>>

CollateNext ==
  \/ PadLabels
  \/ EncodeWords
  \/ EncodeChars
  \/ Validate
  \/ BinarizeAndReturn

CollateSpec == CollateInit /\ [][CollateNext]_vars

(***************************************************************************)
(* MisspelledDataset of data/dataset.py.  A line is a string; "zwsp" is    *)
(* the zero width space U+200B and "emoji" a character outside the         *)
(* character class of pattern.  A corpus is its files, each a sequence of  *)
(* lines, with the statistics of stats.json.                               *)
(***************************************************************************)
\* whether pattern (lines 34-38) leaves a character in place: the letters,
\* the digits, the punctuation and white space
pattern_keeps(c) ==
  \/ c \in uppercase
  \/ InStr(c, lower_letters)
  \/ c \in Digits
  \/ InStr(c, punctuation)
  \/ c = " "

\* lines 161-162: line.replace('\u200b', ''), pattern.sub("", line).strip()
clean_line(raw) ==
  Strip(SelectSeq(SelectSeq(raw, LAMBDA c : c # "zwsp"), pattern_keeps))

\* lines 142-147: the number of lines of file idx
file_size(c, idx) ==
  IF idx # c.num_files - 1
  THEN c.lines_per_file
  ELSE LET remainder == c.total_lines % c.lines_per_file
       IN IF remainder > 0 THEN remainder ELSE c.lines_per_file

\* lines 157-159: the line the loop over the file stops at
read_line(file, line_idx) ==
  IF line_idx + 1 <= Len(file) THEN file[line_idx + 1] ELSE file[Len(file)]

\* the most files a corpus has
MaxFiles == 2

\* lines_per_file of stats.json
LinesPerFile == 2

\* the calls of __getitem__ the interpreter lets nest before it raises
\* RecursionError: sys.getrecursionlimit() as the interpreter starts
RecursionLimit == 1000

Lines ==
  { <<"emoji", "l", "a!", "m", " ">>, <<" ", "zwsp">>, <<"emoji", " ">> }

\* the files of a corpus: every file but the last holds LinesPerFile lines
CorpusFiles ==
  UNION { { full \o <<final>> :
              full \in [1..(n - 1) -> [1..LinesPerFile -> Lines]],
              final \in UNION { [1..k -> Lines] : k \in 1..LinesPerFile } }
          : n \in 1..MaxFiles }

Corpus(files) ==
  [corpus_files |-> files,
   lines_per_file |-> LinesPerFile,
   total_lines |-> (Len(files) - 1) * LinesPerFile + Len(files[Len(files)]),
   num_files |-> Len(files)]

Corpora == { Corpus(files) : files \in CorpusFiles }

ItemInit ==
  /\ GenIdle
  /\ CollateIdle
  /\ corpus \in Corpora
  /\ gpc = "call"
  /\ depth = 1
  /\ line = <<>>

\* lines 152-169, one call: a file and a line are drawn, the line is cleaned;
\* an empty line makes the call call itself, any other is returned
GetItem ==
  /\ gpc = "call"
  /\ \E file_idx \in 0..(Len(corpus.corpus_files) - 1) :
       \E line_idx \in 0..(file_size(corpus, file_idx) - 1) :
         /\ line' = clean_line(read_line(corpus.corpus_files[file_idx + 1], line_idx))
         /\ IF line' = <<>>
            THEN IF depth >= RecursionLimit
                 THEN gpc' = "recursion_error" /\ depth' = depth
                 ELSE gpc' = "call" /\ depth' = depth + 1
            ELSE gpc' = "returned" /\ depth' = depth
  /\ UNCHANGED corpus
  /\ UNCHANGED <<gen_vars, collate_vars>>

ItemNext == GetItem

ItemSpec == ItemInit /\ [][ItemNext]_vars

\* a draw of a line that does not clean to the empty string
DrawNonEmpty == GetItem /\ line' # <<>>

\* fair random draws: a line that can be drawn at every call is drawn in the end
FairItemSpec == ItemSpec /\ WF_vars(DrawNonEmpty)

(***************************************************************************)
(* Properties of generate_typos_and_pos                                    *)
(***************************************************************************)
Done == pc = "done"

C8_NgongLN ==
  \A r \in {1, 2} :
    LET first == IF r = 1 THEN "l" ELSE "L"
        repl == IF r = 1 THEN "n" ELSE "N"
    IN (/\ last = Gate("ngong", r, TRUE)
        /\ Len(origin_token) > 2
        /\ origin_token[1] = first
        /\ InStr(origin_token[2], vowels))
       => /\ Done
          /\ Len(token) = Len(origin_token)
          /\ token[1] = repl
          /\ \A i \in 2..Len(token) : token[i] = origin_token[i]
          /\ typo_type = "Ngong l-n"
          /\ pos = "TYPO"

\* "la!m" has become "na!m"
C8_Witness ==
  /\ Done
  /\ origin_token = <<"l", "a!", "m">>
  /\ token = <<"n", "a!", "m">>
  /\ typo_type = "Ngong l-n"

\* C9 (as claimed): when the special-tone gate fires on a token that holds a
\* digraph of s5 at any position, the call returns the token with that
\* digraph replaced by its s4 form, as "Special tone swap".
C9_ToneSwapAtAnyPosition ==
  (/\ last = Gate("special_tone", 0, TRUE)
   /\ \E i \in 1..Len(s5) : Contains(origin_token, s5[i]))
  => /\ Done
     /\ typo_type = "Special tone swap"
     /\ \E i \in 1..Len(s5) :
          /\ Contains(origin_token, s5[i])
          /\ token = Replace(origin_token, s5[i], s4[i])

\* the minimum length the claim gives a confusion rule: 2 for a prefix of one
\* character, 3 for a prefix of two
ClaimedMinLen(prefix) == IF Len(prefix) = 1 THEN 2 ELSE 3

\* C10 (as claimed): a confusion category is returned only for a token that
\* is longer than the minimum of the rule and whose character right after
\* the matched prefix is in vowels.
C10_ConfusionOnlyBeforeVowel ==
  (Done /\ last.step = "ngong")
  => LET prefix == NgongRules[last.rule].prefix IN
       /\ typo_type = NgongRules[last.rule].typo_type
       /\ Len(origin_token) > ClaimedMinLen(prefix)
       /\ InStr(origin_token[Len(prefix) + 1], vowels)

(***************************************************************************)
(* Properties of custom_collator                                           *)
(***************************************************************************)
Returned == cpc = "returned"

\* the labels of the examples, as the collator receives them
BatchLabels == [i \in 1..Len(batch) |-> batch[i].onehot_labels]

\* the number of words of the longest example
LongestExample ==
  CHOOSE n \in {Len(batch[i].onehot_labels) : i \in 1..Len(batch)} :
    \A i \in 1..Len(batch) : Len(batch[i].onehot_labels) <= n

\* every synthesized token is one word: not empty
NoEmptyToken ==
  \A i \in 1..Len(batch) :
    \A j \in 1..Len(batch[i].synth_tokens) : batch[i].synth_tokens[j] # <<>>

\* C2: in every returned batch correction_labels, detection_labels and
\* word_input_ids have the same shape, and char_input_ids has
\* batch_size * word_seq_len rows.
C2_ShapesAgree ==
  Returned =>
    /\ Size(out.correction_labels) = Size(out.detection_labels)
    /\ Size(out.detection_labels) = Size(out.word_input_ids)
    /\ \A i \in 1..Len(batch) :
         /\ Len(out.correction_labels[i]) = Len(out.word_input_ids[i])
         /\ Len(out.detection_labels[i]) = Len(out.word_input_ids[i])
    /\ Len(out.char_input_ids) = Len(batch) * Size(out.word_input_ids)[2]

\* a batch of a truncated example and a shorter one has been returned
C2_Witness ==
  /\ Returned
  /\ \E i \in 1..Len(batch) : Len(batch[i].synth_tokens) > num_max_word - 2
  /\ \E i \in 1..Len(batch) : Len(batch[i].synth_tokens) <= MaxShort
  /\ Size(out.word_input_ids) = <<batch_size, num_max_word>>

\* the characters of a word, one token each
OwnChars(word) == [k \in 1..Len(word) |-> <<word[k]>>]

\* the character encoding of a word: its own characters between [CLS] and
\* [SEP], cut at num_max_char and padded to width
CharRowOf(word, width) ==
  LET row == EncodeOne(char_vocab, OwnChars(normalize_str(word)), num_max_char)
  IN row \o Repeat(TokenToId(char_vocab, pad_token), width - Len(row))

\* whether row (i - 1) * word_seq_len + p of char_ids, rows counted from 1,
\* is the character encoding of word p - 1 of every example i
CharRowsAreWords(char_ids, word_seq_len, char_seq_len) ==
  \A i \in 1..Len(batch) :
    \A j \in 1..Min(Len(batch[i].synth_tokens), num_max_word - 2) :
      char_ids[(i - 1) * word_seq_len + j + 1]
        = CharRowOf(batch[i].synth_tokens[j], char_seq_len)

\* C3 (as claimed): in every returned batch the row of the character tensor
\* at the position of a word of the synthesized sequence holds the encoding
\* of the characters of that word, in order, up to the character limit.
C3_CharRowsHoldSynthWords ==
  (Returned /\ NoEmptyToken) =>
    CharRowsAreWords(out.char_input_ids, Size(out.word_input_ids)[2],
                     Size(out.char_input_ids)[2])

\* C4 (as claimed): no [PAD], [CLS] or [SEP] is left among the words handed
\* to the character pre-tokenizer, and the pre-tokenizer gives the [UNK]
\* placeholder back as one unchanged token.
C4_SpecialTokensKeptWhole ==
  cpc \in {"validate", "binarize", "returned", "aborted"} =>
    \A k \in 1..Len(batch_sent_words) :
      /\ batch_sent_words[k] \notin {pad_token, cls_token, sep_token}
      /\ batch_sent_words[k] = unk_token => batch_char_tok[k] = unk_token

\* whether padded is the label tensor the claim describes for labels
LabelsPadded(padded, labels, n) ==
  \A i \in 1..Len(labels) :
    LET m == Len(labels[i])
        columns == Min(n + 2, num_max_word)
    IN /\ Len(padded[i]) = columns
       /\ padded[i][1] = 0
       /\ \A j \in 1..m : j + 1 <= columns => padded[i][j + 1] = labels[i][j]
       /\ \A p \in (m + 2)..columns : padded[i][p] = 0

\* C5: once the labels are padded, and until they are binarized, the label
\* tensor has min(n + 2, num_max_word) columns for a longest example of n
\* words; in the row of an example of m words, column 0 is 0, column j + 1
\* is the label of word j where it survives the cut, and the columns after
\* position m are 0.
C5_LabelsPaddedAndCut ==
  cpc \in {"encode_words", "encode_chars", "validate", "binarize", "aborted"} =>
    LabelsPadded(batch_onehot_labels, BatchLabels, LongestExample)

\* the labels of a cut example and of a shorter one with a marked word have
\* been padded
C5_Witness ==
  /\ cpc = "encode_words"
  /\ LongestExample + 2 > num_max_word
  /\ Len(batch_onehot_labels[1]) = num_max_word
  /\ \E i \in 1..Len(batch) :
       /\ Len(batch[i].onehot_labels) <= MaxShort
       /\ batch[i].onehot_labels[1] # 0
       /\ batch_onehot_labels[i][2] = batch[i].onehot_labels[1]
       /\ batch_onehot_labels[i][num_max_word] = 0

\* the ids of [CLS], [SEP] and [PAD] in the word vocabulary
BoundaryIds == {TokenToId(word_vocab, t) : t \in {cls_token, sep_token, pad_token}}

\* whether det is 0 on [CLS], [SEP] and [PAD] and elsewhere 1 exactly on the
\* words with a label other than 0
LabelsAligned(det, word_ids) ==
  \A i \in 1..Len(word_ids) :
    \A p \in 1..Len(word_ids[i]) :
      IF word_ids[i][p] \in BoundaryIds
      THEN det[i][p] = 0
      ELSE det[i][p] = IF batch[i].onehot_labels[p - 1] # 0 THEN 1 ELSE 0

\* C6 (as claimed): in every returned batch detection_labels is 0 wherever
\* word_input_ids holds [CLS], [SEP] or [PAD], and elsewhere is 1 exactly
\* when the word at that position has a label other than 0, sentences of
\* more than num_max_word - 2 words included.
C6_DetectionAligned ==
  (Returned /\ NoEmptyToken) => LabelsAligned(out.detection_labels, out.word_input_ids)

\* whether det is padded with every entry other than 0 turned into 1
Binarized(det, padded) ==
  \A i \in 1..Len(padded) :
    /\ Len(det[i]) = Len(padded[i])
    /\ \A p \in 1..Len(padded[i]) :
         /\ det[i][p] \in {0, 1}
         /\ det[i][p] = 1 <=> padded[i][p] # 0

\* C7: every entry of detection_labels of a returned batch is 0 or 1, and is
\* 1 exactly where the padded label tensor holds a category code.
C7_DetectionBinary ==
  Returned => Binarized(out.detection_labels, List(pad_labels(BatchLabels)))

\* a category code above 1 has been returned as 1
C7_Witness ==
  /\ Returned
  /\ \E i \in 1..Len(batch) :
       /\ batch[i].onehot_labels[1] > 1
       /\ out.detection_labels[i][2] = 1

(***************************************************************************)
(* Further properties of generate_typos_and_pos                            *)
(***************************************************************************)
\* C11 (as claimed): a returned token is marked - pos "TYPO", a typo_type
\* other than "None" - exactly when it differs from the token the call was
\* given, the compounding transforms included.
C11_MarkedIffChanged ==
  Done => /\ (pos = "TYPO") <=> (token # origin_token)
          /\ (typo_type # "None") <=> (token # origin_token)

\* C13 (as claimed): when a confusion rule returns, the token is the
\* counterpart consonant followed by the given token without the matched
\* prefix: every character after the prefix is kept, in order.
C13_OnlyPrefixReplaced ==
  (Done /\ last.step = "ngong")
  => LET r == NgongRules[last.rule] IN
       token = r.char \o SubSeq(origin_token, Len(r.prefix) + 1, Len(origin_token))

\* the categories of the confusion rules
ConfusionNames == {NgongRules[r].typo_type : r \in 1..Len(NgongRules)}

\* whether rule r can return on token t: t is not skipped and meets the
\* condition of the rule (the gates before it can all fail, its own can fire)
CanFire(r, t) == ~skip_typo(t) /\ NgongApplies(NgongRules[r], t)

\* C14 (as claimed): for every confusion of the list - l-n, n-l, s-x, x-s,
\* tr-ch, ch-tr, gi-d, d-gi, r-d, d-r - there is a token on which a rule of
\* that category can return.
C14_EveryConfusionReachable ==
  \A name \in ConfusionNames :
    \E r \in 1..Len(NgongRules) :
      /\ NgongRules[r].typo_type = name
      /\ \E t \in Tokens : CanFire(r, t)

\* the categories of the rules that return at once
RuleCategories == {"Special tone swap"} \cup ConfusionNames

CompoundingStage == {"accent", "swap", "remove", "add"}

\* C15: the special-tone swap and the confusion rules are tried in the order
\* of the code, one after the other (each rule is reached from the gate of
\* the rule before it); when one of them fires the call has
\* returned with its category and with that one replacement only, and the
\* compounding transforms are entered with the token untouched and never
\* hold a category of those rules.
C15_FirstRuleWins ==
  /\ typo_type \in RuleCategories =>
       /\ Done
       /\ pos = "TYPO"
       /\ last.gate
       /\ IF typo_type = "Special tone swap"
          THEN /\ last.step = "special_tone"
               /\ \E i \in 1..Len(s5) : token = Replace(origin_token, s5[i], s4[i])
          ELSE /\ last.step = "ngong"
               /\ typo_type = NgongRules[last.rule].typo_type
               /\ token = manual_replace(origin_token, NgongRules[last.rule].char, 0,
                                         NgongRules[last.rule].length)
  /\ pc = "ngong" =>
       /\ token = origin_token /\ pos = "C"
       /\ IF rule = 1 THEN last.step = "special_tone"
                      ELSE last.step = "ngong" /\ last.rule = rule - 1
  /\ pc = "accent" =>
       /\ token = origin_token /\ pos = "C"
       /\ last.step = "ngong" /\ last.rule = Len(NgongRules)
  /\ pc \in CompoundingStage => typo_type \notin RuleCategories

\* "dan" met the d-gi rule, whose gate did not fire, and was returned by the
\* d-r rule further down as "ran"
C15_Witness ==
  /\ Done
  /\ origin_token = <<"d", "a", "n">>
  /\ token = <<"r", "a", "n">>
  /\ typo_type = "Ngong d-r"
  /\ last = Gate("ngong", 19, TRUE)

\* C16 (as claimed): a call on a token that is not empty returns a token
\* that is not empty, whatever the random draws.
C16_ReturnedTokenNonEmpty ==
  (Done /\ origin_token # <<>>) => token # <<>>

(***************************************************************************)
(* The collator on the tokens of the generator                             *)
(***************************************************************************)
\* the tokens the compounding transforms (lines 310-362) can leave of t
CompoundOutcomes(t) ==
  UNION { UNION { UNION { {r} \cup AddChoices(r) : r \in {w} \cup RemoveChoices(w) }
                  : w \in {a} \cup SwapChoices(a) }
          : a \in {t} \cup AccentChoices(t) }

\* the tokens generate_typos_and_pos can return for t, over all random draws
generate_outcomes(t) ==
  IF skip_typo(t) THEN {t}
  ELSE {t}
       \cup (IF Truthy(special_tone_contain(t))
             THEN {Replace(t, s5[special_tone_contain(t) + 1], s4[special_tone_contain(t) + 1])}
             ELSE {})
       \cup {manual_replace(t, NgongRules[r].char, 0, NgongRules[r].length) :
               r \in {q \in 1..Len(NgongRules) : NgongApplies(NgongRules[q], t)}}
       \cup CompoundOutcomes(t)

\* the words of the batch: original token and synthesized token
BatchWords ==
  UNION { { <<batch[i].origin_tokens[j], batch[i].synth_tokens[j]>> :
              j \in 1..Len(batch[i].origin_tokens) }
          : i \in 1..Len(batch) }

\* the original token is not empty and holds no white space, and the
\* generator can return the synthesized token for it
GeneratedWord(w) ==
  /\ w[1] # <<>>
  /\ ~InStr(" ", w[1])
  /\ w[2] \in generate_outcomes(w[1])

\* every word of the batch is such a word
BatchFromGenerator ==
  /\ \A i \in 1..Len(batch) :
       /\ Len(batch[i].origin_tokens) = Len(batch[i].synth_tokens)
       /\ Len(batch[i].origin_tokens) = Len(batch[i].onehot_labels)
  /\ \A w \in BatchWords : GeneratedWord(w)

\* C17 (as claimed): on a batch whose synthesized tokens the generator made
\* of original tokens that are not empty and hold no white space, the
\* assertions of custom_collator pass - the synthesized encoding, the
\* original encoding and the label tensor have the same columns - and the
\* batch is not aborted.
C17_GeneratedBatchNeverAborted ==
  BatchFromGenerator =>
    /\ cpc # "aborted"
    /\ cpc = "validate" =>
         /\ Size(batch_synth_enc.input_ids) = Size(batch_origin_enc.input_ids)
         /\ Size(batch_origin_enc.input_ids) = Size(batch_onehot_labels)

(***************************************************************************)
(* Properties of MisspelledDataset.__getitem__                             *)
(***************************************************************************)
\* the corpus holds a line that does not clean to the empty string
HasNonEmptyLine ==
  \E f \in 1..Len(corpus.corpus_files) :
    \E l \in 1..Len(corpus.corpus_files[f]) :
      clean_line(corpus.corpus_files[f][l]) # <<>>

\* C12 (as claimed): __getitem__ never returns an empty cleaned line and
\* never raises because of one, and on a corpus with a line that does not
\* clean to empty it returns in the end, under fair draws.
C12_EmptyLinesResampled ==
  /\ [](gpc = "returned" => line # <<>>)
  /\ [](gpc # "recursion_error")
  /\ (gpc = "call" /\ HasNonEmptyLine) ~> (gpc = "returned")
====
